---- MODULE Spec2Model ----
(***************************************************************************)
(* Model of the ticket-queue routes of server/routes.ts:                   *)
(*   POST /api/queue/sync, POST /api/queue/add-and-notify,                 *)
(*   POST /api/queue/update-status, GET /api/queue and                     *)
(*   GET /api/queue/check-reset,                                           *)
(* and of POST /api/payments over the storage of ./storage,                *)
(* running as handlers on one single-threaded event loop over the durable  *)
(* queue document of queue-storage (loadQueueData / saveQueueData).        *)
(***************************************************************************)
EXTENDS Integers, Sequences, FiniteSets, TLC

(* ---------------------------- bounds ----------------------------------- *)
\* Requests started in one behaviour.
MaxRequests == 2
\* Orders carried by one sync snapshot.
MaxSnapshot == 2

(* ------------------------- JSON / JS values ---------------------------- *)
Undefined == [t |-> "undefined"]
Str(s) == [t |-> "string", v |-> s]
Num(n) == [t |-> "number", v |-> n]
Arr(a) == [t |-> "array", v |-> a]
Obj(o) == [t |-> "object", v |-> o]

\* JavaScript truthiness, the test behind every `!x` and `if (x)` guard.
Truthy(j) ==
    CASE j.t = "undefined" -> FALSE
      [] j.t = "string" -> j.v # ""
      [] j.t = "number" -> j.v # 0
      [] OTHER -> TRUE

\* Array.isArray
IsArray(j) == j.t = "array"

(* ------------------------------ inputs --------------------------------- *)
\* createdAt of an order that carries none.
NoDate == 0
\* The instant `new Date()` yields while a request is served; client-side
\* instants are earlier.
Now == 2

\* A ticket is a prefix and a sequence number.
Ticket(p, n) == [prefix |-> p, number |-> n]

Order(i, c, t) == [id |-> i, status |-> "received", createdAt |-> c, ticket |-> t]
OrderA == Order("A", NoDate, Ticket("A", 1))
OrderB == Order("B", 1, Ticket("A", 2))
ClientOrders == {OrderA, OrderB}
Snapshots == UNION {[1..n -> ClientOrders] : n \in 0..MaxSnapshot}
Phones == {Undefined, Str("+55")}

SyncBodies ==
    [kind : {"sync"},
     orders : {Undefined, Str("x")} \cup {Arr(s) : s \in Snapshots},
     currentPrefix : {Str(""), Str("B")},
     currentNumber : {Num(0), Num(-1), Num(2)}]

AddBodies ==
    [kind : {"add"},
     order : {Undefined} \cup {Obj(o) : o \in ClientOrders},
     customerPhone : Phones]

UpdateBodies ==
    [kind : {"update"},
     orderId : {Undefined, Str("A"), Str("B")},
     status : {Undefined, Str("preparing")},
     customerPhone : Phones]

GetBodies == {[kind |-> "get"]}

\* The orders storage holds; POST /api/payments names one of them, another
\* id, or sends a body insertPaymentSchema refuses.
StoredOrderIds == {1}
PayBodies == {[kind |-> "pay", orderId |-> j] : j \in {Undefined, Num(1), Num(2)}}

NoReq == [kind |-> "none"]
None == [t |-> "none"]

\* What a channel adapter call ends in: true, false, or a rejection.
Outcomes == {"ok", "false", "rejected"}

Slots == {1, 2}
NoSlot == 0

(* ------------------------------- state --------------------------------- *)
VARIABLES
    store,      \* the durable queue document
    running,    \* the handler that holds the JavaScript thread, or NoSlot
    started,    \* requests started so far
    pc,         \* per handler: the statement it is at
    req,        \* per handler: req.body
    loaded,     \* per handler: what its loadQueueData() returned
    queueData,  \* per handler: its working copy (queueData / currentData)
    processed,  \* sync: processedOrders
    orderIndex, \* update-status: orderIndex
    calls,      \* per handler: channel adapter invocations, in call order
    saved,      \* per handler: its saveQueueData() has returned
    response,   \* per handler: HTTP status sent (0: none yet)
    lastAdd,    \* history: the add-and-notify that wrote the document last
    prevSync,   \* history: the sync request that returned last
    resetsToday,\* history: day resets check-reset has performed
    payments,   \* storage: order ids of the payment records, in creation order
    orderStatus,\* storage: status of every stored order
    payPc,      \* per POST /api/payments handler: the await it is at
    payReq,     \* per POST /api/payments handler: req.body
    payResp     \* per POST /api/payments handler: HTTP status sent (0: none yet)

vars == <<store, running, started, pc, req, loaded, queueData, processed,
          orderIndex, calls, saved, response, lastAdd, prevSync,
          resetsToday, payments, orderStatus, payPc, payReq, payResp>>

locals == <<loaded, queueData, processed, orderIndex>>

history == <<lastAdd, prevSync, resetsToday>>

payState == <<payments, orderStatus, payPc, payReq, payResp>>

(* --------------------------- queue-storage ----------------------------- *)
DefaultPrefix == "A"

\* The document a missing queue file stands for.
EmptyQueue == [orders |-> <<>>, currentPrefix |-> DefaultPrefix, currentNumber |-> 1]

\* loadQueueData(): the whole document.
loadQueueData == store

\* saveQueueData(data) either replaces the whole document or throws.
SaveOutcomes == {"written", "throws"}

(* ------------------------------ helpers -------------------------------- *)
RECURSIVE SeqToSet(_)
SeqToSet(s) == IF s = <<>> THEN {} ELSE {Head(s)} \cup SeqToSet(Tail(s))

\* orders.map(o => o.id)
OrderIds(orders) == [i \in DOMAIN orders |-> orders[i].id]
IdSet(orders) == {orders[i].id : i \in DOMAIN orders}

\* Variant: an id that is not found selects the last order, as indexing with
\* -1 from the end would.
FindIndexOrLast(orders, id) ==
    IF \E i \in DOMAIN orders : orders[i].id = id
    THEN CHOOSE i \in DOMAIN orders :
            /\ orders[i].id = id
            /\ \A j \in DOMAIN orders : orders[j].id = id => i <= j
    ELSE Len(orders)

\* orders.findIndex(order => order.id === orderId); 0 stands for -1.
FindIndex(orders, id) ==
    IF \E i \in DOMAIN orders : orders[i].id = id
    THEN CHOOSE i \in DOMAIN orders :
            /\ orders[i].id = id
            /\ \A j \in DOMAIN orders : orders[j].id = id => i <= j
    ELSE 0

\* A handler statement runs when its handler holds the thread, or resumes on
\* a free thread.
Step(r) == running = r \/ running = NoSlot

Keep(r) == running' = r

Goto(r, p) == pc' = [pc EXCEPT ![r] = p]

Respond(r, code) ==
    /\ response' = [response EXCEPT ![r] = code]
    /\ pc' = [pc EXCEPT ![r] = "done"]

Init ==
    /\ store = EmptyQueue
    /\ running = NoSlot
    /\ started = 0
    /\ pc = [r \in Slots |-> "idle"]
    /\ req = [r \in Slots |-> NoReq]
    /\ loaded = [r \in Slots |-> None]
    /\ queueData = [r \in Slots |-> None]
    /\ processed = [r \in Slots |-> <<>>]
    /\ orderIndex = [r \in Slots |-> 0]
    /\ calls = [r \in Slots |-> <<>>]
    /\ saved = [r \in Slots |-> FALSE]
    /\ response = [r \in Slots |-> 0]
    /\ lastAdd = None
    /\ prevSync = None
    /\ resetsToday = 0
    /\ payments = <<>>
    /\ orderStatus = [o \in StoredOrderIds |-> "pendente"]
    /\ payPc = [r \in Slots |-> "idle"]
    /\ payReq = [r \in Slots |-> NoReq]
    /\ payResp = [r \in Slots |-> 0]

(* ----------------------------- event loop ------------------------------ *)
\* Variant: the call is awaited, so the handler gives up the thread.
AfterAwaitedCall(r) == NoSlot

\* A call made without `await` returns into the calling handler.
AfterSyncCall(r) == r

FirstPc(kind) ==
    CASE kind = "sync" -> "sync_orders"
      [] kind = "add" -> "add_check"
      [] kind = "update" -> "upd_check"
      [] kind = "get" -> "get_load"
      [] kind = "reset" -> "reset_check"

\* Express hands a request to its handler on a free thread.
Start(r, body) ==
    /\ running = NoSlot
    /\ pc[r] = "idle"
    /\ \A q \in Slots : q < r => pc[q] # "idle"
    /\ started < MaxRequests
    /\ started' = started + 1
    /\ req' = [req EXCEPT ![r] = body]
    /\ pc' = [pc EXCEPT ![r] = FirstPc(body.kind)]
    /\ Keep(r)
    /\ UNCHANGED <<store, locals, calls, saved, response>>
    /\ UNCHANGED <<history, payState>>

\* The handler has returned: its locals are gone and the thread is free.
Return(r) ==
    /\ running = r
    /\ pc[r] = "done"
    /\ pc' = [pc EXCEPT ![r] = "idle"]
    /\ req' = [req EXCEPT ![r] = NoReq]
    /\ loaded' = [loaded EXCEPT ![r] = None]
    /\ queueData' = [queueData EXCEPT ![r] = None]
    /\ processed' = [processed EXCEPT ![r] = <<>>]
    /\ orderIndex' = [orderIndex EXCEPT ![r] = 0]
    /\ calls' = [calls EXCEPT ![r] = <<>>]
    /\ saved' = [saved EXCEPT ![r] = FALSE]
    /\ response' = [response EXCEPT ![r] = 0]
    /\ running' = NoSlot
    /\ UNCHANGED <<store, started>>
    /\ UNCHANGED <<history, payState>>

(* ------------------------ POST /api/queue/sync ------------------------- *)
\* Variant: currentNumber is only checked once the document is saved.
SyncNextLateCheck(p) ==
    CASE p = "sync_orders" -> "sync_prefix"
      [] p = "sync_prefix" -> "sync_load"
      [] p = "sync_load" -> "sync_notify"
      [] p = "sync_notify" -> "sync_process"
      [] p = "sync_process" -> "sync_save"
      [] p = "sync_save" -> "sync_number"
      [] p = "sync_number" -> "sync_respond"

\* Statement order of the handler.
SyncNext(p) ==
    CASE p = "sync_orders" -> "sync_prefix"
      [] p = "sync_prefix" -> "sync_number"
      [] p = "sync_number" -> "sync_load"
      [] p = "sync_load" -> "sync_notify"
      [] p = "sync_notify" -> "sync_process"
      [] p = "sync_process" -> "sync_save"
      [] p = "sync_save" -> "sync_respond"

\* if (!orders) ... if (!Array.isArray(orders)) ...
SyncCheckOrders(r) ==
    /\ Step(r) /\ pc[r] = "sync_orders"
    /\ IF ~Truthy(req[r].orders) \/ ~IsArray(req[r].orders)
       THEN Respond(r, 400)
       ELSE Goto(r, SyncNext("sync_orders")) /\ UNCHANGED response
    /\ Keep(r)
    /\ UNCHANGED <<store, started, req, locals, calls, saved>>
    /\ UNCHANGED <<history, payState>>

\* if (!currentPrefix) ...
SyncCheckPrefix(r) ==
    /\ Step(r) /\ pc[r] = "sync_prefix"
    /\ IF ~Truthy(req[r].currentPrefix)
       THEN Respond(r, 400)
       ELSE Goto(r, SyncNext("sync_prefix")) /\ UNCHANGED response
    /\ Keep(r)
    /\ UNCHANGED <<store, started, req, locals, calls, saved>>
    /\ UNCHANGED <<history, payState>>

\* if (!currentNumber) ...
SyncCheckNumber(r) ==
    /\ Step(r) /\ pc[r] = "sync_number"
    /\ IF ~Truthy(req[r].currentNumber)
       THEN Respond(r, 400)
       ELSE Goto(r, SyncNext("sync_number")) /\ UNCHANGED response
    /\ Keep(r)
    /\ UNCHANGED <<store, started, req, locals, calls, saved>>
    /\ UNCHANGED <<history, payState>>

\* const currentData = loadQueueData()
SyncLoad(r) ==
    /\ Step(r) /\ pc[r] = "sync_load"
    /\ loaded' = [loaded EXCEPT ![r] = loadQueueData]
    /\ queueData' = [queueData EXCEPT ![r] = loadQueueData]
    /\ Goto(r, SyncNext("sync_load"))
    /\ running' = AfterSyncCall(r)
    /\ UNCHANGED <<store, started, req, processed, orderIndex, calls, saved, response>>
    /\ UNCHANGED <<history, payState>>

\* Variant: every order of the snapshot counts as new.
NewOrdersUnfiltered(orders, currentData) == orders

\* orders.filter(order => !currentOrderIds.includes(order.id))
NewOrders(orders, currentData) ==
    SelectSeq(orders, LAMBDA o : o.id \notin SeqToSet(OrderIds(currentData.orders)))

\* newOrders.forEach(async order => { try { await email(order) } catch {} }):
\* every callback runs up to its await, so every email call is made here.
SyncNotify(r) ==
    /\ Step(r) /\ pc[r] = "sync_notify"
    /\ LET newOrders == NewOrders(req[r].orders.v, queueData[r])
       IN \E outs \in [DOMAIN newOrders -> Outcomes] :
            calls' = [calls EXCEPT ![r] =
                [i \in DOMAIN newOrders |->
                    [channel |-> "email", order |-> newOrders[i], outcome |-> outs[i]]]]
    /\ Goto(r, SyncNext("sync_notify"))
    /\ Keep(r)
    /\ UNCHANGED <<store, started, req, locals, saved, response>>
    /\ UNCHANGED <<history, payState>>

\* orders.map(order => ({...order, createdAt: new Date(order.createdAt)})),
\* an order without createdAt getting new Date().
ProcessOrders(orders, now) ==
    [i \in DOMAIN orders |->
        IF orders[i].createdAt = NoDate
        THEN [orders[i] EXCEPT !.createdAt = now]
        ELSE orders[i]]

SyncProcess(r) ==
    /\ Step(r) /\ pc[r] = "sync_process"
    /\ processed' = [processed EXCEPT ![r] = ProcessOrders(req[r].orders.v, Now)]
    /\ Goto(r, SyncNext("sync_process"))
    /\ Keep(r)
    /\ UNCHANGED <<store, started, req, loaded, queueData, orderIndex, calls, saved, response>>
    /\ UNCHANGED <<history, payState>>

\* Variant: the snapshot is appended to the stored orders.
SyncDocumentAppended(currentData, processedOrders, currentPrefix, currentNumber) ==
    [orders |-> currentData.orders \o processedOrders,
     currentPrefix |-> currentPrefix,
     currentNumber |-> currentNumber]

\* The document handed to saveQueueData.
SyncDocument(currentData, processedOrders, currentPrefix, currentNumber) ==
    [orders |-> processedOrders,
     currentPrefix |-> currentPrefix,
     currentNumber |-> currentNumber]

SyncSave(r) ==
    /\ Step(r) /\ pc[r] = "sync_save"
    /\ \E out \in SaveOutcomes :
         IF out = "written"
         THEN /\ store' = SyncDocument(queueData[r], processed[r],
                                       req[r].currentPrefix.v, req[r].currentNumber.v)
              /\ saved' = [saved EXCEPT ![r] = TRUE]
              /\ Goto(r, SyncNext("sync_save"))
         ELSE /\ Goto(r, "sync_catch")
              /\ UNCHANGED <<store, saved>>
    /\ lastAdd' = IF saved'[r] THEN None ELSE lastAdd
    /\ Keep(r)
    /\ UNCHANGED <<started, req, locals, calls, response>>
    /\ UNCHANGED <<prevSync, resetsToday, payState>>

SyncRespond(r) ==
    /\ Step(r) /\ pc[r] = "sync_respond"
    /\ Respond(r, 200)
    /\ Keep(r)
    /\ UNCHANGED <<store, started, req, locals, calls, saved>>
    /\ UNCHANGED <<history, payState>>

SyncCatch(r) ==
    /\ Step(r) /\ pc[r] = "sync_catch"
    /\ Respond(r, 500)
    /\ Keep(r)
    /\ UNCHANGED <<store, started, req, locals, calls, saved>>
    /\ UNCHANGED <<history, payState>>

Sync(r) ==
    \/ SyncCheckOrders(r)
    \/ SyncCheckPrefix(r)
    \/ SyncCheckNumber(r)
    \/ SyncLoad(r)
    \/ SyncNotify(r)
    \/ SyncProcess(r)
    \/ SyncSave(r)
    \/ SyncRespond(r)
    \/ SyncCatch(r)

(* ------------------------- promise helpers ----------------------------- *)
Pending == "pending"

\* `await p`: throws when p rejects, otherwise yields p's value.
Await(outcome) == IF outcome = "rejected" THEN "rejected" ELSE "fulfilled"

\* p.catch(err => null): a rejection becomes the value null.
Caught(outcome) == IF outcome = "rejected" THEN "null" ELSE outcome

\* Promise.allSettled(ps) fulfils whatever its members do.
PromiseAllSettled(outcomes) == "fulfilled"

\* Promise.all(ps) rejects as soon as one member rejects.
PromiseAll(outcomes) ==
    IF \E i \in DOMAIN outcomes : outcomes[i] = "rejected" THEN "rejected" ELSE "fulfilled"

\* Variant: await Promise.all(...) over members without .catch(...).
AwaitNotificationsFailFast(outcomes) == Await(PromiseAll(outcomes))

\* await Promise.allSettled(notificationPromises), every member built with
\* .catch(...).
AwaitNotifications(outcomes) ==
    Await(PromiseAllSettled([i \in DOMAIN outcomes |-> Caught(outcomes[i])]))

Call(channel, order) == [channel |-> channel, order |-> order, outcome |-> Pending]

Settled(cs, outs) == [i \in DOMAIN cs |-> [cs[i] EXCEPT !.outcome = outs[i]]]

(* -------------------- POST /api/queue/add-and-notify ------------------- *)
\* if (!order) ...
AddCheck(r) ==
    /\ Step(r) /\ pc[r] = "add_check"
    /\ IF ~Truthy(req[r].order)
       THEN Respond(r, 400)
       ELSE Goto(r, "add_load") /\ UNCHANGED response
    /\ Keep(r)
    /\ UNCHANGED <<store, started, req, locals, calls, saved>>
    /\ UNCHANGED <<history, payState>>

\* const queueData = loadQueueData()
AddLoad(r) ==
    /\ Step(r) /\ pc[r] = "add_load"
    /\ loaded' = [loaded EXCEPT ![r] = loadQueueData]
    /\ queueData' = [queueData EXCEPT ![r] = loadQueueData]
    /\ Goto(r, "add_push")
    /\ running' = AfterSyncCall(r)
    /\ UNCHANGED <<store, started, req, processed, orderIndex, calls, saved, response>>
    /\ UNCHANGED <<history, payState>>

\* Variant: the order goes into a copy that is thrown away.
PushDiscarded(data, order) == data

\* queueData.orders.push(order)
Push(data, order) == [data EXCEPT !.orders = Append(@, order)]

AddPush(r) ==
    /\ Step(r) /\ pc[r] = "add_push"
    /\ queueData' = [queueData EXCEPT ![r] = Push(@, req[r].order.v)]
    /\ Goto(r, "add_save")
    /\ Keep(r)
    /\ UNCHANGED <<store, started, req, loaded, processed, orderIndex, calls, saved, response>>
    /\ UNCHANGED <<history, payState>>

\* saveQueueData(queueData)
AddSave(r) ==
    /\ Step(r) /\ pc[r] = "add_save"
    /\ \E out \in SaveOutcomes :
         IF out = "written"
         THEN /\ store' = queueData[r]
              /\ saved' = [saved EXCEPT ![r] = TRUE]
              /\ Goto(r, "add_email")
         ELSE /\ Goto(r, "add_catch")
              /\ UNCHANGED <<store, saved>>
    /\ lastAdd' = IF saved'[r]
                  THEN [before |-> store.orders, order |-> req[r].order.v]
                  ELSE lastAdd
    /\ Keep(r)
    /\ UNCHANGED <<started, req, locals, calls, response>>
    /\ UNCHANGED <<prevSync, resetsToday, payState>>

\* emailService.sendNewOrderNotification(order).then(...).catch(...)
AddEmail(r) ==
    /\ Step(r) /\ pc[r] = "add_email"
    /\ calls' = [calls EXCEPT ![r] = Append(@, Call("email", req[r].order.v))]
    /\ Goto(r, "add_admin")
    /\ Keep(r)
    /\ UNCHANGED <<store, started, req, locals, saved, response>>
    /\ UNCHANGED <<history, payState>>

\* whatsappService.notifyAdminsAboutNewOrder(order).catch(...)
AddAdmin(r) ==
    /\ Step(r) /\ pc[r] = "add_admin"
    /\ calls' = [calls EXCEPT ![r] = Append(@, Call("admin", req[r].order.v))]
    /\ Goto(r, "add_customer")
    /\ Keep(r)
    /\ UNCHANGED <<store, started, req, locals, saved, response>>
    /\ UNCHANGED <<history, payState>>

\* if (customerPhone) whatsappService.notifyCustomerAboutOrder(...).catch(...)
AddCustomer(r) ==
    /\ Step(r) /\ pc[r] = "add_customer"
    /\ IF Truthy(req[r].customerPhone)
       THEN calls' = [calls EXCEPT ![r] = Append(@, Call("customer", req[r].order.v))]
       ELSE UNCHANGED calls
    /\ Goto(r, "add_await")
    /\ Keep(r)
    /\ UNCHANGED <<store, started, req, locals, saved, response>>
    /\ UNCHANGED <<history, payState>>

\* await Promise.allSettled(...): the handler gives up the thread.
AddAwait(r) ==
    /\ Step(r) /\ pc[r] = "add_await"
    /\ Goto(r, "add_settle")
    /\ running' = NoSlot
    /\ UNCHANGED <<store, started, req, locals, calls, saved, response>>
    /\ UNCHANGED <<history, payState>>

\* Every adapter call has ended, each in its own outcome; the handler resumes.
AddSettle(r) ==
    /\ running = NoSlot /\ pc[r] = "add_settle"
    /\ \E outs \in [DOMAIN calls[r] -> Outcomes] :
         /\ calls' = [calls EXCEPT ![r] = Settled(@, outs)]
         /\ IF AwaitNotifications(outs) = "rejected"
            THEN Goto(r, "add_catch")
            ELSE Goto(r, "add_respond")
    /\ Keep(r)
    /\ UNCHANGED <<store, started, req, locals, saved, response>>
    /\ UNCHANGED <<history, payState>>

AddRespond(r) ==
    /\ Step(r) /\ pc[r] = "add_respond"
    /\ Respond(r, 201)
    /\ Keep(r)
    /\ UNCHANGED <<store, started, req, locals, calls, saved>>
    /\ UNCHANGED <<history, payState>>

AddCatch(r) ==
    /\ Step(r) /\ pc[r] = "add_catch"
    /\ Respond(r, 500)
    /\ Keep(r)
    /\ UNCHANGED <<store, started, req, locals, calls, saved>>
    /\ UNCHANGED <<history, payState>>

AddAndNotify(r) ==
    \/ AddCheck(r)
    \/ AddLoad(r)
    \/ AddPush(r)
    \/ AddSave(r)
    \/ AddEmail(r)
    \/ AddAdmin(r)
    \/ AddCustomer(r)
    \/ AddAwait(r)
    \/ AddSettle(r)
    \/ AddRespond(r)
    \/ AddCatch(r)

(* --------------------- POST /api/queue/update-status ------------------- *)
\* if (!orderId || !status) ...
UpdCheck(r) ==
    /\ Step(r) /\ pc[r] = "upd_check"
    /\ IF ~Truthy(req[r].orderId) \/ ~Truthy(req[r].status)
       THEN Respond(r, 400)
       ELSE Goto(r, "upd_load") /\ UNCHANGED response
    /\ Keep(r)
    /\ UNCHANGED <<store, started, req, locals, calls, saved>>
    /\ UNCHANGED <<history, payState>>

\* const queueData = loadQueueData()
UpdLoad(r) ==
    /\ Step(r) /\ pc[r] = "upd_load"
    /\ loaded' = [loaded EXCEPT ![r] = loadQueueData]
    /\ queueData' = [queueData EXCEPT ![r] = loadQueueData]
    /\ Goto(r, "upd_find")
    /\ running' = AfterSyncCall(r)
    /\ UNCHANGED <<store, started, req, processed, orderIndex, calls, saved, response>>
    /\ UNCHANGED <<history, payState>>

\* const orderIndex = findIndex(...); if (orderIndex === -1) 404
UpdFind(r) ==
    /\ Step(r) /\ pc[r] = "upd_find"
    /\ LET idx == FindIndex(queueData[r].orders, req[r].orderId.v)
       IN /\ orderIndex' = [orderIndex EXCEPT ![r] = idx]
          /\ IF idx = 0
             THEN Respond(r, 404)
             ELSE Goto(r, "upd_set") /\ UNCHANGED response
    /\ Keep(r)
    /\ UNCHANGED <<store, started, req, loaded, queueData, processed, calls, saved>>
    /\ UNCHANGED <<history, payState>>

\* Variant: the status is written to every order of the document.
SetStatusOfAll(data, idx, status) ==
    [data EXCEPT !.orders = [i \in DOMAIN @ |-> [@[i] EXCEPT !.status = status]]]

\* queueData.orders[orderIndex].status = status
SetStatus(data, idx, status) == [data EXCEPT !.orders[idx].status = status]

UpdSet(r) ==
    /\ Step(r) /\ pc[r] = "upd_set"
    /\ queueData' = [queueData EXCEPT ![r] = SetStatus(@, orderIndex[r], req[r].status.v)]
    /\ Goto(r, "upd_save")
    /\ Keep(r)
    /\ UNCHANGED <<store, started, req, loaded, processed, orderIndex, calls, saved, response>>
    /\ UNCHANGED <<history, payState>>

\* saveQueueData(queueData)
UpdSave(r) ==
    /\ Step(r) /\ pc[r] = "upd_save"
    /\ \E out \in SaveOutcomes :
         IF out = "written"
         THEN /\ store' = queueData[r]
              /\ saved' = [saved EXCEPT ![r] = TRUE]
              /\ Goto(r, "upd_notify")
         ELSE /\ Goto(r, "upd_catch")
              /\ UNCHANGED <<store, saved>>
    /\ lastAdd' = IF saved'[r] THEN None ELSE lastAdd
    /\ Keep(r)
    /\ UNCHANGED <<started, req, locals, calls, response>>
    /\ UNCHANGED <<prevSync, resetsToday, payState>>

\* if (customerPhone) await whatsappService.notifyCustomerAboutStatusUpdate(...)
UpdNotify(r) ==
    /\ Step(r) /\ pc[r] = "upd_notify"
    /\ IF Truthy(req[r].customerPhone)
       THEN /\ calls' = [calls EXCEPT ![r] =
                    Append(@, Call("customer", queueData[r].orders[orderIndex[r]]))]
            /\ Goto(r, "upd_settle")
            /\ running' = NoSlot
       ELSE /\ Goto(r, "upd_respond")
            /\ Keep(r)
            /\ UNCHANGED calls
    /\ UNCHANGED <<store, started, req, locals, saved, response>>
    /\ UNCHANGED <<history, payState>>

\* The adapter call has ended; the handler resumes, in its catch block when
\* the awaited promise rejected.
UpdSettle(r) ==
    /\ running = NoSlot /\ pc[r] = "upd_settle"
    /\ \E out \in Outcomes :
         /\ calls' = [calls EXCEPT ![r] = Settled(@, [i \in DOMAIN calls[r] |-> out])]
         /\ IF Await(out) = "rejected"
            THEN Goto(r, "upd_catch")
            ELSE Goto(r, "upd_respond")
    /\ Keep(r)
    /\ UNCHANGED <<store, started, req, locals, saved, response>>
    /\ UNCHANGED <<history, payState>>

UpdRespond(r) ==
    /\ Step(r) /\ pc[r] = "upd_respond"
    /\ Respond(r, 200)
    /\ Keep(r)
    /\ UNCHANGED <<store, started, req, locals, calls, saved>>
    /\ UNCHANGED <<history, payState>>

UpdCatch(r) ==
    /\ Step(r) /\ pc[r] = "upd_catch"
    /\ Respond(r, 500)
    /\ Keep(r)
    /\ UNCHANGED <<store, started, req, locals, calls, saved>>
    /\ UNCHANGED <<history, payState>>

UpdateStatus(r) ==
    \/ UpdCheck(r)
    \/ UpdLoad(r)
    \/ UpdFind(r)
    \/ UpdSet(r)
    \/ UpdSave(r)
    \/ UpdNotify(r)
    \/ UpdSettle(r)
    \/ UpdRespond(r)
    \/ UpdCatch(r)

(* --------------------------- GET /api/queue ---------------------------- *)
\* const queueData = loadQueueData()
GetLoad(r) ==
    /\ Step(r) /\ pc[r] = "get_load"
    /\ loaded' = [loaded EXCEPT ![r] = loadQueueData]
    /\ queueData' = [queueData EXCEPT ![r] = loadQueueData]
    /\ Goto(r, "get_respond")
    /\ running' = AfterSyncCall(r)
    /\ UNCHANGED <<store, started, req, processed, orderIndex, calls, saved, response>>
    /\ UNCHANGED <<history, payState>>

\* res.json(queueData): the answer carries queueData[r].
GetRespond(r) ==
    /\ Step(r) /\ pc[r] = "get_respond"
    /\ Respond(r, 200)
    /\ Keep(r)
    /\ UNCHANGED <<store, started, req, locals, calls, saved>>
    /\ UNCHANGED <<history, payState>>

GetQueue(r) ==
    \/ GetLoad(r)
    \/ GetRespond(r)

Bodies == SyncBodies \cup AddBodies \cup UpdateBodies \cup GetBodies

Next ==
    \/ \E r \in Slots : \E body \in Bodies : Start(r, body)
    \/ \E r \in Slots : Return(r)
    \/ \E r \in Slots : Sync(r)
    \/ \E r \in Slots : AddAndNotify(r)
    \/ \E r \in Slots : UpdateStatus(r)
    \/ \E r \in Slots : GetQueue(r)

Spec == Init /\ [][Next]_vars

(* ------------------- adapters that never return ------------------------ *)
\* The awaited adapter promise never settles: nothing resumes the handler.
AdapterHangs(r) ==
    /\ running = NoSlot
    /\ pc[r] \in {"add_settle", "upd_settle"}
    /\ Goto(r, "hung")
    /\ UNCHANGED <<store, running, started, req, locals, calls, saved, response>>
    /\ UNCHANGED <<history, payState>>

NextHang ==
    \/ Next
    \/ \E r \in Slots : AdapterHangs(r)

\* The event loop runs every handler that can run; requests arrive, and
\* adapters hang, as they please.
Runs(r) == Sync(r) \/ AddAndNotify(r) \/ UpdateStatus(r) \/ GetQueue(r) \/ Return(r)

SpecHang == Init /\ [][NextHang]_vars /\ \A r \in Slots : WF_vars(Runs(r))

(* -------------------- GET /api/queue/check-reset ----------------------- *)
\* The calendar day on which every request of a behaviour is served.
Today == 1

\* The prefix a day reset rotates to.
NextPrefix(p) == IF p = "A" THEN "B" ELSE "A"

\* The document carries no lastResetDate, or one of another day.
IsNewDay(doc, today) ==
    "lastResetDate" \notin DOMAIN doc \/ doc.lastResetDate # today

\* The document checkAndResetQueueForNewDay() persists on a new day.
ResetDocument(doc, today) ==
    [orders |-> doc.orders,
     currentPrefix |-> NextPrefix(doc.currentPrefix),
     currentNumber |-> 1,
     lastResetDate |-> today]

\* const wasReset = checkAndResetQueueForNewDay(); saved[r] holds wasReset.
ResetCheck(r) ==
    /\ Step(r) /\ pc[r] = "reset_check"
    /\ loaded' = [loaded EXCEPT ![r] = loadQueueData]
    /\ queueData' = [queueData EXCEPT ![r] = loadQueueData]
    /\ IF IsNewDay(loadQueueData, Today)
       THEN \E out \in SaveOutcomes :
              IF out = "written"
              THEN /\ store' = ResetDocument(loadQueueData, Today)
                   /\ saved' = [saved EXCEPT ![r] = TRUE]
                   /\ resetsToday' = resetsToday + 1
                   /\ Goto(r, "reset_respond")
                   /\ UNCHANGED response
              ELSE /\ Respond(r, 500)
                   /\ UNCHANGED <<store, saved, resetsToday>>
       ELSE /\ Goto(r, "reset_respond")
            /\ UNCHANGED <<store, saved, resetsToday, response>>
    /\ lastAdd' = IF saved'[r] THEN None ELSE lastAdd
    /\ running' = AfterSyncCall(r)
    /\ UNCHANGED <<started, req, processed, orderIndex, calls>>
    /\ UNCHANGED <<prevSync, payState>>

\* res.json({ reset: wasReset })
ResetRespond(r) ==
    /\ Step(r) /\ pc[r] = "reset_respond"
    /\ Respond(r, 200)
    /\ Keep(r)
    /\ UNCHANGED <<store, started, req, locals, calls, saved>>
    /\ UNCHANGED <<history, payState>>

CheckReset(r) ==
    \/ ResetCheck(r)
    \/ ResetRespond(r)

(* ------------------------- a day of requests --------------------------- *)
\* Requests started in one behaviour of a day.
MaxDayRequests == 3

\* Order A as a client that renumbered it sends it.
OrderARenumbered == Order("A", NoDate, Ticket("B", 1))

DaySnapshots == UNION {[1..n -> {OrderA, OrderARenumbered}] : n \in 0..MaxSnapshot}

DayBodies ==
    [kind : {"sync"},
     orders : {Undefined} \cup {Arr(s) : s \in DaySnapshots},
     currentPrefix : {Str(""), Str("B")},
     currentNumber : {Num(0), Num(2)}]
    \cup [kind : {"add"}, order : {Undefined, Obj(OrderA)}, customerPhone : Phones]
    \cup [kind : {"update"},
          orderId : {Undefined, Str("A")},
          status : {Str("preparing"), Str("bogus")},
          customerPhone : Phones]
    \cup GetBodies
    \cup {[kind |-> "reset"]}

StartDay(r, body) ==
    /\ running = NoSlot
    /\ pc[r] = "idle"
    /\ \A q \in Slots : q < r => pc[q] # "idle"
    /\ started < MaxDayRequests
    /\ started' = started + 1
    /\ req' = [req EXCEPT ![r] = body]
    /\ pc' = [pc EXCEPT ![r] = FirstPc(body.kind)]
    /\ Keep(r)
    /\ UNCHANGED <<store, locals, calls, saved, response>>
    /\ UNCHANGED <<history, payState>>

\* What a returning handler leaves behind for a retry to be compared with: a
\* sync that got as far as its notifications leaves its snapshot, whether it
\* saved, and the orders it notified.
Attempt(r) ==
    IF req[r].kind = "sync" /\ loaded[r] # None
    THEN [orders |-> req[r].orders.v,
          saved |-> saved[r],
          notified |-> {calls[r][i].order : i \in DOMAIN calls[r]}]
    ELSE None

\* Return(r), remembering the attempt.
ReturnDay(r) ==
    /\ running = r
    /\ pc[r] = "done"
    /\ prevSync' = Attempt(r)
    /\ pc' = [pc EXCEPT ![r] = "idle"]
    /\ req' = [req EXCEPT ![r] = NoReq]
    /\ loaded' = [loaded EXCEPT ![r] = None]
    /\ queueData' = [queueData EXCEPT ![r] = None]
    /\ processed' = [processed EXCEPT ![r] = <<>>]
    /\ orderIndex' = [orderIndex EXCEPT ![r] = 0]
    /\ calls' = [calls EXCEPT ![r] = <<>>]
    /\ saved' = [saved EXCEPT ![r] = FALSE]
    /\ response' = [response EXCEPT ![r] = 0]
    /\ running' = NoSlot
    /\ UNCHANGED <<store, started>>
    /\ UNCHANGED <<lastAdd, resetsToday, payState>>

NextDay ==
    \/ \E r \in Slots : \E body \in DayBodies : StartDay(r, body)
    \/ \E r \in Slots : ReturnDay(r)
    \/ \E r \in Slots : Sync(r)
    \/ \E r \in Slots : AddAndNotify(r)
    \/ \E r \in Slots : UpdateStatus(r)
    \/ \E r \in Slots : GetQueue(r)
    \/ \E r \in Slots : CheckReset(r)

SpecDay == Init /\ [][NextDay]_vars

(* ------------------------- POST /api/payments -------------------------- *)
\* An awaited storage call resolves or rejects.
StorageOutcomes == {"resolved", "rejected"}

\* storage.createPayment(result.data)
CreatePayment(ps, orderId) == Append(ps, orderId)

\* storage.getPaymentByOrder(orderId)
GetPaymentByOrder(ps, orderId) == \E i \in DOMAIN ps : ps[i] = orderId

PayGoto(r, p) == payPc' = [payPc EXCEPT ![r] = p]

PayRespond(r, code) ==
    /\ payResp' = [payResp EXCEPT ![r] = code]
    /\ payPc' = [payPc EXCEPT ![r] = "done"]

queueState == <<store, running, pc, req, locals, calls, saved, response, history>>

\* Express hands an authenticated request to the handler.
PayStart(r, body) ==
    /\ payPc[r] = "idle"
    /\ \A q \in Slots : q < r => payPc[q] # "idle"
    /\ started < MaxRequests
    /\ started' = started + 1
    /\ payReq' = [payReq EXCEPT ![r] = body]
    /\ PayGoto(r, "parse")
    /\ UNCHANGED <<payments, orderStatus, payResp>>
    /\ UNCHANGED queueState

\* insertPaymentSchema.safeParse(req.body); await storage.getOrder(orderId)
PayParse(r) ==
    /\ payPc[r] = "parse"
    /\ IF ~Truthy(payReq[r].orderId)
       THEN PayRespond(r, 400)
       ELSE PayGoto(r, "get_order") /\ UNCHANGED payResp
    /\ UNCHANGED <<started, payments, orderStatus, payReq>>
    /\ UNCHANGED queueState

\* getOrder has settled; if (!order) 404;
\* await storage.getPaymentByOrder(orderId)
PayGetOrder(r) ==
    /\ payPc[r] = "get_order"
    /\ \E out \in StorageOutcomes :
         IF out = "rejected"
         THEN PayGoto(r, "catch") /\ UNCHANGED payResp
         ELSE IF payReq[r].orderId.v \notin StoredOrderIds
              THEN PayRespond(r, 404)
              ELSE PayGoto(r, "get_payment") /\ UNCHANGED payResp
    /\ UNCHANGED <<started, payments, orderStatus, payReq>>
    /\ UNCHANGED queueState

\* getPaymentByOrder has settled; if (existingPayment) 400;
\* await storage.createPayment(result.data)
PayGetPayment(r) ==
    /\ payPc[r] = "get_payment"
    /\ \E out \in StorageOutcomes :
         IF out = "rejected"
         THEN PayGoto(r, "catch") /\ UNCHANGED payResp
         ELSE IF GetPaymentByOrder(payments, payReq[r].orderId.v)
              THEN PayRespond(r, 400)
              ELSE PayGoto(r, "create") /\ UNCHANGED payResp
    /\ UNCHANGED <<started, payments, orderStatus, payReq>>
    /\ UNCHANGED queueState

\* createPayment has settled;
\* await storage.updateOrderStatus(orderId, 'confirmado')
PayCreate(r) ==
    /\ payPc[r] = "create"
    /\ \E out \in StorageOutcomes :
         IF out = "rejected"
         THEN PayGoto(r, "catch") /\ UNCHANGED payments
         ELSE /\ payments' = CreatePayment(payments, payReq[r].orderId.v)
              /\ PayGoto(r, "update_status")
    /\ UNCHANGED <<started, orderStatus, payReq, payResp>>
    /\ UNCHANGED queueState

\* updateOrderStatus has settled; res.status(201)
PayUpdateStatus(r) ==
    /\ payPc[r] = "update_status"
    /\ \E out \in StorageOutcomes :
         IF out = "rejected"
         THEN PayGoto(r, "catch") /\ UNCHANGED <<orderStatus, payResp>>
         ELSE /\ orderStatus' = [orderStatus EXCEPT ![payReq[r].orderId.v] = "confirmado"]
              /\ PayRespond(r, 201)
    /\ UNCHANGED <<started, payments, payReq>>
    /\ UNCHANGED queueState

\* catch (error) 500
PayCatch(r) ==
    /\ payPc[r] = "catch"
    /\ PayRespond(r, 500)
    /\ UNCHANGED <<started, payments, orderStatus, payReq>>
    /\ UNCHANGED queueState

\* The handler has returned.
PayReturn(r) ==
    /\ payPc[r] = "done"
    /\ payPc' = [payPc EXCEPT ![r] = "idle"]
    /\ payReq' = [payReq EXCEPT ![r] = NoReq]
    /\ payResp' = [payResp EXCEPT ![r] = 0]
    /\ UNCHANGED <<started, payments, orderStatus>>
    /\ UNCHANGED queueState

Payment(r) ==
    \/ PayParse(r)
    \/ PayGetOrder(r)
    \/ PayGetPayment(r)
    \/ PayCreate(r)
    \/ PayUpdateStatus(r)
    \/ PayCatch(r)

NextPay ==
    \/ \E r \in Slots : \E body \in PayBodies : PayStart(r, body)
    \/ \E r \in Slots : PayReturn(r)
    \/ \E r \in Slots : Payment(r)

SpecPay == Init /\ [][NextPay]_vars

(* ============================== claims ================================= *)
IsSync(r) == req[r].kind = "sync"
IsAdd(r) == req[r].kind = "add"
IsUpdate(r) == req[r].kind = "update"

\* Occurrences of x in a sequence.
Count(seq, x) == Cardinality({i \in DOMAIN seq : seq[i] = x})

\* Adapter calls a handler made for order o.
CallsFor(r, o) == Cardinality({i \in DOMAIN calls[r] : calls[r][i].order = o})

\* C1: a sync never deletes: every order id stored when the sync loaded the
\* document is still stored once the sync has saved.
C1_SyncNeverDeletes ==
    \A r \in Slots :
        (IsSync(r) /\ saved[r]) => IdSet(loaded[r].orders) \subseteq IdSet(store.orders)

\* C2: an update-status whose order exists and whose status was saved answers
\* 200 whatever the customer-WhatsApp call ends in.
C2_UpdateSucceedsWhateverNotification ==
    \A r \in Slots :
        (IsUpdate(r) /\ saved[r] /\ pc[r] = "done") => response[r] = 200

\* The channels a new order of add-and-notify is to reach.
SelectedChannels(body) ==
    <<"email", "admin">> \o (IF Truthy(body.customerPhone) THEN <<"customer">> ELSE <<>>)

\* C3: an add-and-notify whose order was saved calls every selected channel,
\* each call ends in its own outcome, and the answer is 201, whatever the
\* outcomes are.
C3_NotificationIsolation ==
    \A r \in Slots :
        (IsAdd(r) /\ saved[r] /\ pc[r] = "done") =>
            /\ response[r] = 201
            /\ [i \in DOMAIN calls[r] |-> calls[r][i].channel] = SelectedChannels(req[r])
            /\ \A i \in DOMAIN calls[r] : calls[r][i].outcome \in Outcomes

C3_Witness ==
    \E r \in Slots :
        /\ IsAdd(r) /\ saved[r] /\ pc[r] = "done" /\ response[r] = 201
        /\ Len(calls[r]) = 3
        /\ calls[r][1].outcome = "rejected"
        /\ calls[r][2].outcome = "ok"
        /\ calls[r][3].outcome = "ok"

\* C4: no request has called a channel adapter before its own saveQueueData
\* has returned.
C4_CommitBeforeNotify ==
    \A r \in Slots : calls[r] # <<>> => saved[r]

\* C5: between a request's loadQueueData and its saveQueueData no other
\* request saves: what it loaded is still the stored document; and the
\* document an add-and-notify saves is the stored one plus its order.
C5_SerializedReadModifyWrite ==
    \A r \in Slots :
        /\ (loaded[r] # None /\ ~saved[r]) => store = loaded[r]
        /\ (IsAdd(r) /\ saved[r] /\ pc[r] = "add_email") =>
               store = Push(loaded[r], req[r].order.v)

C5_Witness ==
    \E r, q \in Slots :
        /\ r # q /\ IsAdd(r) /\ IsAdd(q)
        /\ pc[r] = "add_settle" /\ saved[r]
        /\ pc[q] = "add_email" /\ saved[q]
        /\ req[r].order.v.id # req[q].order.v.id
        /\ {req[r].order.v.id, req[q].order.v.id} \subseteq IdSet(store.orders)

\* C6: a sync answered 400 has neither read nor written the stored document
\* and has called no channel adapter.
C6_RejectedSyncHasNoEffect ==
    \A r \in Slots :
        (IsSync(r) /\ response[r] = 400) =>
            /\ ~saved[r]
            /\ loaded[r] = None
            /\ calls[r] = <<>>
            /\ running = r

C6_Witness ==
    \E r \in Slots :
        /\ IsSync(r) /\ response[r] = 400
        /\ IsArray(req[r].orders) /\ Len(req[r].orders.v) > 0
        /\ Truthy(req[r].currentPrefix)
        /\ store.orders # <<>>

\* The validation the sequencer fields are to pass.
ValidSequencer(body) ==
    /\ body.currentPrefix.t = "string" /\ body.currentPrefix.v # ""
    /\ body.currentNumber.t = "number" /\ body.currentNumber.v >= 0

\* C7: a sync carrying an orders array is rejected with 400 exactly when its
\* prefix is empty or its number is negative, and replaces the stored
\* sequencer fields when it saves.
C7_SequencerValidation ==
    \A r \in Slots :
        (IsSync(r) /\ IsArray(req[r].orders) /\ pc[r] = "done") =>
            /\ (response[r] # 400) <=> ValidSequencer(req[r])
            /\ saved[r] => /\ store.currentPrefix = req[r].currentPrefix.v
                           /\ store.currentNumber = req[r].currentNumber.v

\* C8: no two stored orders have the same id.
C8_UniqueOrderIds ==
    \A i, j \in DOMAIN store.orders :
        i # j => store.orders[i].id # store.orders[j].id

\* The document holds exactly what a sync of this body leaves: the ids of
\* the snapshot, in order, and its sequencer fields.
HoldsSnapshot(doc, body) ==
    /\ OrderIds(doc.orders) = OrderIds(body.orders.v)
    /\ doc.currentPrefix = body.currentPrefix.v
    /\ doc.currentNumber = body.currentNumber.v

\* C9: a sync applied to a document that already holds its snapshot leaves
\* the order ids, the order count and the sequencer fields as they were.
C9_MergeIdempotence ==
    \A r \in Slots :
        (IsSync(r) /\ saved[r] /\ HoldsSnapshot(loaded[r], req[r])) =>
            /\ OrderIds(store.orders) = OrderIds(loaded[r].orders)
            /\ Len(store.orders) = Len(loaded[r].orders)
            /\ store.currentPrefix = loaded[r].currentPrefix
            /\ store.currentNumber = loaded[r].currentNumber

C9_Witness ==
    \E r \in Slots :
        /\ IsSync(r) /\ saved[r] /\ pc[r] = "done" /\ response[r] = 200
        /\ HoldsSnapshot(loaded[r], req[r])
        /\ Len(req[r].orders.v) = 2
        /\ loaded[r].currentPrefix # DefaultPrefix

\* C10: a sync makes one new-order call for each order of its snapshot whose
\* id was not stored when it loaded the document and none for the others;
\* once it has saved, those orders are stored and the answer is 200 whatever
\* the calls end in.
C10_OneEventPerNewOrder ==
    \A r \in Slots :
        (IsSync(r) /\ pc[r] \in {"sync_process", "sync_save", "sync_respond", "sync_catch", "done"}
                   /\ loaded[r] # None) =>
            LET snapshot == req[r].orders.v
                known == IdSet(loaded[r].orders)
            IN /\ \A o \in SeqToSet(snapshot) :
                     CallsFor(r, o) = IF o.id \in known THEN 0 ELSE Count(snapshot, o)
               /\ \A i \in DOMAIN calls[r] : calls[r][i].order \in SeqToSet(snapshot)
               /\ (saved[r] /\ pc[r] = "done") =>
                     /\ response[r] = 200
                     /\ IdSet(snapshot) \subseteq IdSet(store.orders)

C10_Witness ==
    \E r \in Slots :
        /\ IsSync(r) /\ saved[r] /\ pc[r] = "done" /\ response[r] = 200
        /\ "A" \in IdSet(loaded[r].orders)
        /\ OrderIds(req[r].orders.v) = <<"A", "B">>
        /\ Len(calls[r]) = 1
        /\ calls[r][1].order.id = "B"
        /\ calls[r][1].outcome = "rejected"

\* Channels a handler called for order o.
ChannelsFor(r, o) == {calls[r][i].channel : i \in {j \in DOMAIN calls[r] : calls[r][j].order = o}}

\* C11: every new-order event reaches the email and the admin-WhatsApp
\* channel, and the customer-WhatsApp channel exactly when the request
\* carries a customer phone: for add-and-notify once it has made its calls,
\* and for every order a sync found new.
C11_NewOrderChannels ==
    \A r \in Slots :
        /\ (IsAdd(r) /\ pc[r] \in {"add_await", "add_settle", "add_respond", "done"} /\ saved[r]) =>
               ChannelsFor(r, req[r].order.v) = SeqToSet(SelectedChannels(req[r]))
        /\ (IsSync(r) /\ pc[r] \in {"sync_process", "sync_save", "sync_respond", "sync_catch", "done"}
                      /\ loaded[r] # None) =>
               \A o \in SeqToSet(req[r].orders.v) :
                   o.id \notin IdSet(loaded[r].orders) => ChannelsFor(r, o) = {"email", "admin"}

\* C18: an update-status whose orderId matches no stored order answers 404,
\* has not saved, has called no adapter, and the document is as it loaded it.
C18_UnknownOrderIs404 ==
    \A r \in Slots :
        (IsUpdate(r) /\ pc[r] = "done" /\ loaded[r] # None
                     /\ req[r].orderId.v \notin IdSet(loaded[r].orders)) =>
            /\ response[r] = 404
            /\ ~saved[r]
            /\ calls[r] = <<>>
            /\ store = loaded[r]

C18_Witness ==
    \E r \in Slots :
        /\ IsUpdate(r) /\ pc[r] = "done" /\ response[r] = 404
        /\ Truthy(req[r].customerPhone)
        /\ store.orders # <<>>
        /\ req[r].orderId.v \notin IdSet(store.orders)

C12_RequestCompletes ==
    \A r \in Slots :
        ((IsAdd(r) \/ IsUpdate(r)) /\ saved[r]) ~> (response[r] # 0)

\* The tickets the document holds for order id.
TicketsOf(doc, id) ==
    {doc.orders[i].ticket : i \in {j \in DOMAIN doc.orders : doc.orders[j].id = id}}

\* C13: ticket immutability: an order id that is stored before and after a
\* step has the same ticket after it as before.
C13_TicketImmutable ==
    [][\A id \in IdSet(store.orders) \cap IdSet(store'.orders) :
           TicketsOf(store', id) = TicketsOf(store, id)]_vars

AllowedStatuses ==
    {"received", "confirmed", "preparing", "out-for-delivery", "completed", "canceled"}

\* C14: status domain: every stored order's status is one of the six allowed
\* values, and an update-status request carrying another status is answered
\* 400 without saving.
C14_StatusDomain ==
    /\ \A i \in DOMAIN store.orders : store.orders[i].status \in AllowedStatuses
    /\ \A r \in Slots :
           (IsUpdate(r) /\ pc[r] = "done" /\ Truthy(req[r].status)
                /\ req[r].status.v \notin AllowedStatuses) =>
               (response[r] = 400 /\ ~saved[r])

\* C15: daily reset idempotence: over the check-reset calls of one calendar
\* day, whatever sync, add-and-notify and update-status requests run between
\* them, the reset is performed at most once; a later call answers
\* reset: false and leaves the document as it found it.
C15_ResetAtMostOnce ==
    /\ resetsToday <= 1
    /\ \A r \in Slots :
           (req[r].kind = "reset" /\ pc[r] = "done" /\ response[r] = 200 /\ ~saved[r]) =>
               store = loaded[r]

\* Tickets of one prefix carry strictly increasing numbers in insertion order.
TicketsIncrease(orders) ==
    \A i, j \in DOMAIN orders :
        (i < j /\ orders[i].ticket.prefix = orders[j].ticket.prefix) =>
            orders[i].ticket.number < orders[j].ticket.number

\* C16: ticket numbers are never reused within a prefix: after every step the
\* stored tickets of one prefix are distinct and increase in insertion order,
\* and a step that keeps currentPrefix does not lower currentNumber.
C16_TicketNumbersNotReused ==
    [][/\ TicketsIncrease(store'.orders)
       /\ store'.currentPrefix = store.currentPrefix =>
              store'.currentNumber >= store.currentNumber]_vars

\* C17: retrying sync never duplicates notifications: a sync that carries the
\* snapshot of the sync attempt that returned before it makes no adapter call
\* for an order that attempt already notified.
C17_RetryNeverRenotifies ==
    \A r \in Slots :
        (IsSync(r) /\ prevSync # None /\ IsArray(req[r].orders)
             /\ req[r].orders.v = prevSync.orders) =>
            \A i \in DOMAIN calls[r] : calls[r][i].order \notin prevSync.notified

\* C20: at most one payment per order under concurrency: however the
\* POST /api/payments requests for one order interleave at their awaits,
\* storage holds at most one payment record for the order, and a request
\* answered 201 has created the only one.
C20_OnePaymentPerOrder ==
    /\ \A o \in StoredOrderIds : Count(payments, o) <= 1
    /\ \A r \in Slots :
           (payPc[r] = "done" /\ payResp[r] = 201) =>
               Count(payments, payReq[r].orderId.v) = 1

\* Document `after` is document `before` but for the status of one order
\* carrying id.
StatusFrame(before, after, id) ==
    /\ DOMAIN after = DOMAIN before
    /\ \A f \in DOMAIN before \ {"orders"} : after[f] = before[f]
    /\ Len(after.orders) = Len(before.orders)
    /\ \E k \in DOMAIN before.orders :
         /\ before.orders[k].id = id
         /\ after.orders[k] = [before.orders[k] EXCEPT !.status = after.orders[k].status]
         /\ \A i \in DOMAIN before.orders \ {k} : after.orders[i] = before.orders[i]

\* C21: frame of a status update: the write of an update-status request
\* changes only the status field of the order identified by orderId; every
\* other field of that order, every other order (number, position, contents),
\* currentPrefix and currentNumber stay as they were.
C21_StatusUpdateFrame ==
    [][\A r \in Slots :
           (IsUpdate(r) /\ pc[r] = "upd_save" /\ saved'[r]) =>
               StatusFrame(store, store', req[r].orderId.v)]_vars

C21_Witness ==
    \E r \in Slots :
        /\ IsUpdate(r) /\ saved[r] /\ pc[r] = "upd_notify"
        /\ Len(store.orders) >= 2
        /\ store # loaded[r]
        /\ \E i \in DOMAIN store.orders : store.orders[i].status # req[r].status.v

====
